---- MODULE Spec2Model ----
(***************************************************************************)
(* A model of mismisquote: fuzzy matching of a pattern (a list of items)   *)
(* in a reference (a list of items), src/src/mismisquote.py.               *)
(*                                                                         *)
(* Scores are Python floats in the source and IEEE doubles here, rounded   *)
(* as the source rounds them.                                              *)
(* An item is a string: a non-empty tuple of one-character strings.        *)
(***************************************************************************)
EXTENDS Integers, Sequences, FiniteSets, TLC

\* Bounds of the model.
MaxPatLen == 3
MaxRefLen == 3

(***************************************************************************)
(* Float arithmetic: IEEE 754 doubles, every operation rounded to nearest, *)
(* ties to even (53 significant bits).  Overflow to infinity, subnormals,  *)
(* NaN and the sign of zero are left out: the scores of the source stay    *)
(* far from them.                                                          *)
(*                                                                         *)
(* Each double has one form:                                               *)
(*   <<n, d>>      the number n / d, when it is such a number with         *)
(*                 |n| < 2^15, d a power of two up to 2^14, and n odd or   *)
(*                 d = 1 (0.0 is <<0, 1>>, 0.75 is <<3, 4>>);              *)
(*   <<s, e, M>>   otherwise, the number s * M * 2^e: s is 1 or -1 and     *)
(*                 2^52 <= M < 2^53, M given by its four digits in base    *)
(*                 2^14, lowest digit first.                               *)
(* So = on these forms is == on floats.                                    *)
(***************************************************************************)
Abs(n) == IF n < 0 THEN -n ELSE n

RECURSIVE GCD(_, _)
GCD(a, b) == IF b = 0 THEN a ELSE GCD(b, a % b)

\* natural numbers of any size: digits in base 2^14, lowest first, no
\* leading zero digit (<<>> is 0)
Base == 16384
DigitBits == 14

Digit(a, i) == IF i <= Len(a) THEN a[i] ELSE 0
Zeros(n) == [k \in 1..n |-> 0]

RECURSIVE BTrim(_)
BTrim(a) ==
    IF Len(a) > 0 /\ a[Len(a)] = 0 THEN BTrim(SubSeq(a, 1, Len(a) - 1)) ELSE a

\* the digits of 0 <= n < 2^31
BFromInt(n) ==
    IF n = 0 THEN <<>>
    ELSE IF n < Base THEN <<n>>
    ELSE BTrim(<<n % Base, (n \div Base) % Base, n \div (Base * Base)>>)
\* the number of at most two digits
BInt(a) == Digit(a, 1) + Digit(a, 2) * Base

\* a + b + c from digit i on, t the sum at digit i
RECURSIVE BAddFrom(_, _, _, _)
BAddStep(a, b, i, t) == <<t % Base>> \o BAddFrom(a, b, i + 1, t \div Base)
BAddFrom(a, b, i, c) ==
    IF i > Len(a) THEN
        (IF i > Len(b) THEN (IF c = 0 THEN <<>> ELSE <<c>>)
         ELSE IF c = 0 THEN SubSeq(b, i, Len(b))
         ELSE BAddStep(a, b, i, b[i] + c))
    ELSE IF i > Len(b) THEN
        (IF c = 0 THEN SubSeq(a, i, Len(a)) ELSE BAddStep(a, b, i, a[i] + c))
    ELSE BAddStep(a, b, i, a[i] + b[i] + c)
BAdd(a, b) == BAddFrom(a, b, 1, 0)

\* a - b, for a >= b
RECURSIVE BSubFrom(_, _, _, _)
BSubStep(a, b, i, t) ==
    <<t % Base>> \o BSubFrom(a, b, i + 1, IF t < 0 THEN 1 ELSE 0)
BSubFrom(a, b, i, c) ==
    IF i > Len(a) THEN <<>> ELSE BSubStep(a, b, i, a[i] - Digit(b, i) - c)
BSub(a, b) == BTrim(BSubFrom(a, b, 1, 0))

RECURSIVE BCmpFrom(_, _, _)
BCmpFrom(a, b, i) ==
    IF i = 0 THEN 0
    ELSE IF a[i] < b[i] THEN -1
    ELSE IF a[i] > b[i] THEN 1
    ELSE BCmpFrom(a, b, i - 1)
\* -1, 0, 1 as a < b, a = b, a > b
BCmp(a, b) ==
    IF Len(a) < Len(b) THEN -1
    ELSE IF Len(a) > Len(b) THEN 1
    ELSE BCmpFrom(a, b, Len(a))

\* a * k for 0 <= k <= Base
RECURSIVE BMulSmallFrom(_, _, _, _)
BMulSmallStep(a, k, i, t) ==
    <<t % Base>> \o BMulSmallFrom(a, k, i + 1, t \div Base)
BMulSmallFrom(a, k, i, c) ==
    IF i > Len(a) THEN (IF c = 0 THEN <<>> ELSE <<c>>)
    ELSE BMulSmallStep(a, k, i, a[i] * k + c)
BMulSmall(a, k) == BTrim(BMulSmallFrom(a, k, 1, 0))

RECURSIVE BMulFrom(_, _, _)
BMulFrom(a, b, i) ==
    IF i > Len(b) THEN <<>>
    ELSE BAdd(Zeros(i - 1) \o BMulSmall(a, b[i]), BMulFrom(a, b, i + 1))
BMul(a, b) ==
    IF Len(b) = 1 THEN BMulSmall(a, b[1])
    ELSE IF Len(a) = 1 THEN BMulSmall(b, a[1])
    ELSE BTrim(BMulFrom(a, b, 1))

\* <<a \div k, a % k>> for 0 < k <= 4 * Base
RECURSIVE BDivFrom(_, _, _, _, _)
BDivStep(a, k, i, t, q) == BDivFrom(a, k, i - 1, t % k, <<t \div k>> \o q)
BDivFrom(a, k, i, r, q) ==
    IF i = 0 THEN <<BTrim(q), r>> ELSE BDivStep(a, k, i, r * Base + a[i], q)
BDivSmall(a, k) == BDivFrom(a, k, Len(a), 0, <<>>)

\* a * 2^n
BShl(a, n) ==
    IF a = <<>> \/ n = 0 THEN a
    ELSE IF n % DigitBits = 0 THEN Zeros(n \div DigitBits) \o a
    ELSE Zeros(n \div DigitBits) \o BMulSmall(a, 2 ^ (n % DigitBits))
\* a \div 2^n
BShr(a, n) ==
    IF n = 0 THEN a
    ELSE IF n \div DigitBits >= Len(a) THEN <<>>
    ELSE IF n % DigitBits = 0 THEN SubSeq(a, n \div DigitBits + 1, Len(a))
    ELSE BDivSmall(SubSeq(a, n \div DigitBits + 1, Len(a)), 2 ^ (n % DigitBits))[1]
\* bit n of a (bit 0 is the lowest)
BBit(a, n) == (Digit(a, n \div DigitBits + 1) \div (2 ^ (n % DigitBits))) % 2
\* a % 2^n # 0
BLowNonzero(a, n) ==
    \/ \E i \in 1..(n \div DigitBits) : Digit(a, i) # 0
    \/ Digit(a, n \div DigitBits + 1) % (2 ^ (n % DigitBits)) # 0

\* the number of significant bits of v >= 0
RECURSIVE BitLenInt(_)
BitLenInt(v) ==
    IF v >= 16 THEN 4 + BitLenInt(v \div 16)
    ELSE IF v >= 8 THEN 4
    ELSE IF v >= 4 THEN 3
    ELSE IF v >= 2 THEN 2
    ELSE v
\* the number of significant bits of a
BLen(a) ==
    IF a = <<>> THEN 0 ELSE DigitBits * (Len(a) - 1) + BitLenInt(a[Len(a)])

\* the number of trailing zero bits of v > 0
RECURSIVE TzInt(_)
TzInt(v) == IF v % 2 = 1 THEN 0 ELSE 1 + TzInt(v \div 2)
\* the number of trailing zero bits of a # 0, counted from digit i
RECURSIVE BTz(_, _)
BTz(a, i) == IF a[i] = 0 THEN DigitBits + BTz(a, i + 1) ELSE TzInt(a[i])

\* the form of the double s * N * 2^e for N of L <= 53 bits (or N = 2^53):
\* N is brought to 53 bits
Normal(s, e, N, L) ==
    IF L <= 53 THEN <<s, e - (53 - L), BShl(N, 53 - L)>>
    ELSE <<s, e + 1, BShr(N, 1)>>
\* the form of the double s * n * 2^e for n odd and below 2^15
SmallOdd(s, e, n) ==
    IF e <= 0 /\ e >= -14 THEN <<s * n, 2 ^ (-e)>>
    ELSE IF e > 0 /\ BitLenInt(n) + e <= 15 THEN <<s * n * (2 ^ e), 1>>
    ELSE Normal(s, e, <<n>>, BitLenInt(n))
PackBy(s, e, N, t, L) ==
    IF L - t <= 15 THEN SmallOdd(s, e + t, BInt(BShr(N, t)))
    ELSE Normal(s, e, N, L)
\* the form of the double s * N * 2^e, for N of at most 53 bits (or 2^53)
Pack(s, e, N) ==
    IF N = <<>> THEN <<0, 1>> ELSE PackBy(s, e, N, BTz(N, 1), BLen(N))

\* the double n / d, for d a power of two (below 2^31, as n)
QOf(n, d) ==
    IF n < 32768 /\ n > -32768 /\ d <= 16384 THEN <<n, d>>
    ELSE Pack(IF n < 0 THEN -1 ELSE 1, 1 - BitLenInt(d), BFromInt(Abs(n)))
QBy(n, d, g) == QOf(n \div g, d \div g)
Q(n, d) == QBy(n, d, GCD(Abs(n), d))

Zero == Q(0, 1)
One == Q(1, 1)
Half == Q(1, 2)

\* <<s, e, M>> with s * M * 2^e the double x, M of any number of bits
Unpack(x) ==
    IF Len(x) = 3 THEN x
    ELSE <<IF x[1] < 0 THEN -1 ELSE 1, 1 - BitLenInt(x[2]), BFromInt(Abs(x[1]))>>

\* the form of s * q * 2^e for q of 53 bits (or 2^53): as it is, unless its
\* low bits are all 0
Rounded(s, e, q) == IF q[1] # 0 THEN <<s, e, q>> ELSE Pack(s, e, q)
\* q is the 53 bits kept, rb the bit below them, st says that a bit below
\* that one is set: round to nearest, ties to even
RoundAt(s, e, q, rb, st) ==
    IF rb /\ (st \/ q[1] % 2 = 1) THEN Rounded(s, e, BAdd(q, <<1>>))
    ELSE Rounded(s, e, q)
RoundLen(s, e, N, st, L) ==
    IF L <= 53 THEN Pack(s, e, N)
    ELSE RoundAt(s, e + (L - 53), BShr(N, L - 53), BBit(N, L - 54) = 1,
                 st \/ BLowNonzero(N, L - 54))
\* the double nearest to s * (N + r) * 2^e, with 0 < r < 1 if st and r = 0
\* otherwise (N of more than 54 bits if st)
Round(s, e, N, st) == RoundLen(s, e, N, st, BLen(N))

FMul(x, y) == Round(x[1] * y[1], x[2] + y[2], BMul(x[3], y[3]), FALSE)

\* the exact sum <<s, e, N>> of x and y
ExactAddOf(sx, sy, e, A, B) ==
    IF sx = sy THEN <<sx, e, BAdd(A, B)>>
    ELSE IF BCmp(A, B) >= 0 THEN <<sx, e, BSub(A, B)>>
    ELSE <<sy, e, BSub(B, A)>>
ExactAddAt(x, y, e) ==
    ExactAddOf(x[1], y[1], e, BShl(x[3], x[2] - e), BShl(y[3], y[2] - e))
ExactAdd(x, y) == ExactAddAt(x, y, IF x[2] < y[2] THEN x[2] ELSE y[2])
RoundExact(t) == Round(t[1], t[2], t[3], FALSE)
FAdd(x, y) == RoundExact(ExactAdd(x, y))

Neg(x) == <<-x[1], x[2], x[3]>>
\* the sign of x # 0, in either form
Sign(x) == IF x[1] < 0 THEN -1 ELSE 1
\* the place of the highest bit of x # 0, in either form
Top(x) ==
    IF Len(x) = 3 THEN 53 + x[2]
    ELSE BitLenInt(Abs(x[1])) + 1 - BitLenInt(x[2])
\* -1, 0, 1 as x < y, x = y, x > y: by the signs, then by the places of the
\* highest bits, then by the sign of the exact difference
FCmpOf(t) == IF t[3] = <<>> THEN 0 ELSE t[1]
FCmpTop(x, y, tx, ty) ==
    IF tx > ty THEN Sign(x)
    ELSE IF tx < ty THEN -Sign(x)
    ELSE IF Len(x) = 3 /\ Len(y) = 3 THEN x[1] * BCmp(x[3], y[3])
    ELSE FCmpOf(ExactAdd(Unpack(x), Neg(Unpack(y))))
FCmp(x, y) ==
    IF x = y THEN 0
    ELSE IF x[1] = 0 THEN -Sign(y)
    ELSE IF y[1] = 0 THEN Sign(x)
    ELSE IF Sign(x) # Sign(y) THEN Sign(x)
    ELSE FCmpTop(x, y, Top(x), Top(y))

\* x / k for an integer k # 0 (|k| <= 4 * Base): M, of L bits, is extended
\* by zero digits so that the quotient has 55 bits or more; its remainder
\* tells whether it is exact
DivDigits(L, k) ==
    IF 55 + BitLenInt(k) - L <= 0 THEN 0
    ELSE (55 + BitLenInt(k) - L + DigitBits - 1) \div DigitBits
FDivBy(s, e, qr) == Round(s, e, qr[1], qr[2] # 0)
FDivAt(x, k, c) ==
    FDivBy(IF k < 0 THEN -x[1] ELSE x[1], x[2] - DigitBits * c,
           BDivSmall(Zeros(c) \o x[3], Abs(k)))
FDivInt(x, k) ==
    IF x[3] = <<>> THEN <<0, 1>> ELSE FDivAt(x, k, DivDigits(BLen(x[3]), Abs(k)))

\* Fits: x and y are of the form <<n, d>>, where products, sums and cross
\* products are exact and below 2^31
Fits(x, y) == Len(x) = 2 /\ Len(y) = 2

\* the double n / d for d a power of two: in lowest terms already when n
\* is odd
QRed(n, d) == IF n % 2 = 1 \/ d = 1 THEN QOf(n, d) ELSE Q(n, d)

\* x = +-1 / 2^k
IsPowerOfTwo(x) == Len(x) = 2 /\ (x[1] = 1 \/ x[1] = -1)
\* x * y for y = +-1 / 2^k and x of the form <<s, e, M>>: exact
Scaled(x, y) == Pack(x[1] * y[1], x[2] + 1 - BitLenInt(y[2]), x[3])

\* x * y (the first component of a double is 0 for 0.0 alone)
QMul(x, y) ==
    IF x[1] = 0 \/ y[1] = 0 THEN Zero
    ELSE IF Fits(x, y) THEN QRed(x[1] * y[1], x[2] * y[2])
    ELSE IF Len(x) = 3 /\ IsPowerOfTwo(y) THEN Scaled(x, y)
    ELSE IF Len(y) = 3 /\ IsPowerOfTwo(x) THEN Scaled(y, x)
    ELSE FMul(Unpack(x), Unpack(y))
\* x + y
QAdd(x, y) ==
    IF x[1] = 0 THEN y
    ELSE IF y[1] = 0 THEN x
    ELSE IF Fits(x, y) THEN QRed(x[1] * y[2] + y[1] * x[2], x[2] * y[2])
    ELSE FAdd(Unpack(x), Unpack(y))
\* the divisors by which a division is exact
PowersOfTwo == {1, 2, 4, 8, 16, 32, 64}
\* x / k for an integer k # 0
QDivInt(x, k) ==
    IF x[1] = 0 THEN Zero
    ELSE IF k \in PowersOfTwo
    THEN (IF Len(x) = 2 THEN QRed(x[1], x[2] * k) ELSE Scaled(x, <<1, k>>))
    ELSE FDivInt(Unpack(x), k)
\* x < y
QLt(x, y) ==
    IF Fits(x, y) THEN x[1] * y[2] < y[1] * x[2]
    ELSE FCmp(x, y) < 0
\* x <= y
QLe(x, y) ==
    IF Fits(x, y) THEN x[1] * y[2] <= y[1] * x[2]
    ELSE FCmp(x, y) <= 0
\* min(x, y)
QMin(x, y) == IF QLe(x, y) THEN x ELSE y

(***************************************************************************)
(* Items.                                                                  *)
(***************************************************************************)
\* a split that leaves out the first character
ListOfTail(item) == [n \in 1..(Len(item) - 1) |-> <<item[n + 1]>>]

\* list(item): a string split into its one-character strings
list(item) == [n \in 1..Len(item) |-> <<item[n]>>]

\* [x] * n
Repeat(x, n) == [k \in 1..n |-> x]

(***************************************************************************)
(* _or: the 'or' of two scores, the old one weighted down by its age.      *)
(* The three range checks of the source build a ValueError and drop it     *)
(* (there is no raise), so they have no effect.                            *)
(***************************************************************************)
OrUnclamped(newscore, oldscore, howold) ==
    QAdd(newscore, QDivInt(oldscore, 2 + howold))

_or(newscore, oldscore, howold) ==
    QMin(One, QAdd(newscore, QDivInt(oldscore, 2 + howold)))

(***************************************************************************)
(* The results list: sort by score descending (list.sort is stable, also   *)
(* with reverse=True), then filter by the threshold.                       *)
(***************************************************************************)
\* a sort that puts r before the elements of equal score
InsertDescUnstable(sorted, r) ==
    LET n == Cardinality({k \in 1..Len(sorted) : QLt(r[2], sorted[k][2])})
    IN  SubSeq(sorted, 1, n) \o <<r>> \o SubSeq(sorted, n + 1, Len(sorted))

\* r goes after every element whose score is >= its own
InsertDesc(sorted, r) ==
    LET n == Cardinality({k \in 1..Len(sorted) : QLe(r[2], sorted[k][2])})
    IN  SubSeq(sorted, 1, n) \o <<r>> \o SubSeq(sorted, n + 1, Len(sorted))

RECURSIVE SortFrom(_, _, _)
SortFrom(results, n, sorted) ==
    IF n > Len(results) THEN sorted
    ELSE SortFrom(results, n + 1, InsertDesc(sorted, results[n]))

SortDesc(results) == SortFrom(results, 1, <<>>)

FilterStrict(results, threshold) ==
    SelectSeq(results, LAMBDA res : QLt(threshold, res[2]))

FilterThreshold(results, threshold) ==
    SelectSeq(results, LAMBDA res : QLe(threshold, res[2]))

(***************************************************************************)
(* MMQTracker                                                              *)
(***************************************************************************)
\* MMQTracker.__init__: the object, or the ValueError it raises
NewMMQTracker(length, allowed_differences, nomatch_multiplier, threshold) ==
    IF length <= 0 THEN [err |-> "ValueError"]
    ELSE IF allowed_differences < 0 THEN [err |-> "ValueError"]
    ELSE IF allowed_differences >= length THEN [err |-> "ValueError"]
    ELSE IF QLt(nomatch_multiplier, Zero) \/ QLe(One, nomatch_multiplier)
         THEN [err |-> "ValueError"]
    ELSE IF QLt(threshold, Zero) \/ QLt(One, threshold) THEN [err |-> "ValueError"]
    ELSE [err |-> "",
          length |-> length,
          allowed_differences |-> allowed_differences,
          nomatch_multiplier |-> nomatch_multiplier,
          threshold |-> threshold,
          tracker |-> <<>>]

\* the filler of the synthesized first predecessor
Filler(T) ==
    IF QLt(Zero, T.nomatch_multiplier) THEN T.nomatch_multiplier
    ELSE IF T.allowed_differences > 0 THEN QDivInt(One, T.allowed_differences + 1)
    ELSE Zero

\* a shift that seeds the new hypothesis with 0.0
ShiftLastNoSeed(T) ==
    IF Len(T.tracker) > 0
    THEN Tail(T.tracker[Len(T.tracker)]) \o <<Zero>>
    ELSE Repeat(Filler(T), T.length - 1) \o <<Zero>>

_shift_last_tracker(T) ==
    IF Len(T.tracker) > 0
    THEN Tail(T.tracker[Len(T.tracker)]) \o <<One>>
    ELSE Repeat(Filler(T), T.length - 1) \o <<One>>

\* a look-back two states deeper wherever the history has them
ShiftOldDeeper(T, j) ==
    LET old == T.tracker[IF Len(T.tracker) >= j + 4
                         THEN Len(T.tracker) - (j + 4) + 1
                         ELSE Len(T.tracker) - (j + 2) + 1]
    IN  SubSeq(old, j + 3, Len(old)) \o Repeat(One, j + 2)

\* self.tracker[-(j+2)][j+2:] + [1.0] * (j+2), read after the append
_shift_old_tracker(T, j) ==
    LET old == T.tracker[Len(T.tracker) - (j + 2) + 1]
    IN  SubSeq(old, j + 3, Len(old)) \o Repeat(One, j + 2)

\* an 'and' that zeroes a hard mismatch whatever the multiplier
AndTrackerZeroing(T, newtracker, matches) ==
    [n \in 1..T.length |->
        LET mv == matches[T.length - n + 1]
        IN  IF mv = Zero THEN Zero
            ELSE IF QLt(mv, One) THEN QMul(newtracker[n], mv)
            ELSE newtracker[n]]

\* an 'and' that takes the multiplier for a penalty: a miss keeps 1 - multiplier
AndTrackerPenalty(T, newtracker, matches) ==
    [n \in 1..T.length |->
        LET mv == matches[T.length - n + 1]
        IN  IF mv = Zero
            THEN QMul(newtracker[n], QAdd(One, QMul(Q(-1, 1), T.nomatch_multiplier)))
            ELSE IF QLt(mv, One) THEN QMul(newtracker[n], mv)
            ELSE newtracker[n]]

\* index n here is index i = n - 1 of the source, paired with
\* matches[length - i - 1]
_and_tracker(T, newtracker, matches) ==
    [n \in 1..T.length |->
        LET mv == matches[T.length - n + 1]
        IN  IF mv = Zero THEN QMul(newtracker[n], T.nomatch_multiplier)
            ELSE IF QLt(mv, One) THEN QMul(newtracker[n], mv)
            ELSE newtracker[n]]

\* a loop without the historic-diagonal part
OrAltNever(T, locmap, j, score) == score

\* the historic-diagonal part of one round j of the loop of shiftand
OrAlt(T, locmap, j, score) ==
    IF j < Len(T.tracker) - 1
    THEN _or(score, _and_tracker(T, _shift_old_tracker(T, j), locmap)[1], j)
    ELSE score

\* the loop over j of shiftand, T already holding the appended newtracker
RECURSIVE OrLoop(_, _, _, _, _)
OrLoop(T, newtracker, locmap, j, score) ==
    IF j >= T.allowed_differences THEN score
    ELSE OrLoop(T, newtracker, locmap, j + 1,
                OrAlt(T, locmap, j, _or(score, newtracker[j + 2], j)))

\* a loop that starts at the second later entry
ShiftandScoreSkipFirst(T, newtracker, locmap) ==
    IF T.allowed_differences # 0
    THEN OrLoop(T, newtracker, locmap, 1, newtracker[1])
    ELSE newtracker[1]

\* the score of shiftand, T already holding the appended newtracker
ShiftandScore(T, newtracker, locmap) ==
    IF T.allowed_differences # 0
    THEN OrLoop(T, newtracker, locmap, 0, newtracker[1])
    ELSE newtracker[1]

\* shiftand from the append on
ShiftandAppend(T, locmap, newtracker) ==
    [err |-> "",
     obj |-> [T EXCEPT !.tracker = Append(@, newtracker)],
     score |-> ShiftandScore([T EXCEPT !.tracker = Append(@, newtracker)],
                             newtracker, locmap)]

\* MMQTracker.shiftand: the tracker after the call and the score returned,
\* or the ValueError raised on a locmap of another length
shiftand(T, locmap) ==
    IF Len(locmap) # T.length THEN [err |-> "ValueError"]
    ELSE ShiftandAppend(T, locmap, _and_tracker(T, _shift_last_tracker(T), locmap))

(***************************************************************************)
(* MMQVectors and MisMisQuote: construction.  The 'vectors' dict is a      *)
(* sequence of entries in insertion order; the 'mmq' of an entry is <<>>   *)
(* for None and <<M>> for a nested MisMisQuote M.                          *)
(***************************************************************************)
HasKey(vectors, item) == \E n \in 1..Len(vectors) : vectors[n].key = item

KeyIndex(vectors, item) == CHOOSE n \in 1..Len(vectors) : vectors[n].key = item

\* the range checks MisMisQuote.__init__ and MMQVectors.__init__ share
BadRanges(allowed_differences, nomatch_multiplier, threshold) ==
    \/ allowed_differences < 0
    \/ QLt(nomatch_multiplier, Zero) \/ QLe(One, nomatch_multiplier)
    \/ QLt(threshold, Zero) \/ QLt(One, threshold)

\* the entry of a new key at index i, mmq being <<>> or <<nested matcher>>
NewEntry(items, i, mmq) ==
    [key |-> items[i],
     locmap |-> [Repeat(Zero, Len(items)) EXCEPT ![i] = One],
     mmq |-> mmq]

RECURSIVE NewMisMisQuote(_, _, _, _)
RECURSIVE VectorsLoop(_, _, _, _, _, _)

\* a new compound key: the entry with the nested matcher sub, or its error
AddNested(items, allowed_differences, nomatch_multiplier, threshold, i, vectors, sub) ==
    IF sub.err # "" THEN [err |-> sub.err]
    ELSE VectorsLoop(items, allowed_differences, nomatch_multiplier, threshold, i + 1,
                     Append(vectors, NewEntry(items, i, <<sub.obj>>)))

\* the loop of MMQVectors.__init__ from index i on (1-based)
VectorsLoop(items, allowed_differences, nomatch_multiplier, threshold, i, vectors) ==
    IF i > Len(items) THEN [err |-> "", vectors |-> vectors]
    ELSE IF HasKey(vectors, items[i])
    THEN VectorsLoop(items, allowed_differences, nomatch_multiplier, threshold, i + 1,
                     [vectors EXCEPT ![KeyIndex(vectors, items[i])].locmap[i] = One])
    ELSE IF Len(items[i]) > 1
    THEN AddNested(items, allowed_differences, nomatch_multiplier, threshold, i, vectors,
                   NewMisMisQuote(list(items[i]), allowed_differences,
                                  nomatch_multiplier, threshold))
    ELSE VectorsLoop(items, allowed_differences, nomatch_multiplier, threshold, i + 1,
                     Append(vectors, NewEntry(items, i, <<>>)))

\* the MMQVectors object around the dict the loop built
VectorsObject(items, allowed_differences, nomatch_multiplier, threshold, built) ==
    IF built.err # "" THEN [err |-> built.err]
    ELSE [err |-> "",
          obj |-> [items |-> items,
                   vectors |-> built.vectors,
                   threshold |-> threshold,
                   allowed_differences |-> allowed_differences,
                   nomatch_multiplier |-> nomatch_multiplier]]

\* MMQVectors.__init__
NewMMQVectors(items, allowed_differences, nomatch_multiplier, threshold) ==
    IF BadRanges(allowed_differences, nomatch_multiplier, threshold)
    THEN [err |-> "ValueError"]
    ELSE VectorsObject(items, allowed_differences, nomatch_multiplier, threshold,
             VectorsLoop(items, allowed_differences, nomatch_multiplier, threshold,
                         1, <<>>))

\* the MisMisQuote object around its MMQVectors v
MatcherObject(items, allowed_differences, nomatch_multiplier, threshold, v) ==
    IF v.err # "" THEN [err |-> v.err]
    ELSE [err |-> "",
          obj |-> [items |-> items,
                   threshold |-> threshold,
                   allowed_differences |-> allowed_differences,
                   nomatch_multiplier |-> nomatch_multiplier,
                   vectors |-> v.obj]]

\* MisMisQuote.__init__: the object, or the ValueError it raises
NewMisMisQuote(items, allowed_differences, nomatch_multiplier, threshold) ==
    IF Len(items) = 0 THEN [err |-> "ValueError"]
    ELSE IF BadRanges(allowed_differences, nomatch_multiplier, threshold)
    THEN [err |-> "ValueError"]
    ELSE MatcherObject(items, allowed_differences, nomatch_multiplier, threshold,
             NewMMQVectors(items, allowed_differences, nomatch_multiplier, threshold))

(***************************************************************************)
(* MMQVectors.get_locmap and MisMisQuote.find_in, which call each other    *)
(* through the nested matchers.                                            *)
(***************************************************************************)
RECURSIVE find_in(_, _)
RECURSIVE PotentialsLoop(_, _, _, _)

\* one key with a nested matcher: res is what its find_in returned
AddPotential(V, item, n, potentials, res) ==
    IF res.err # "" THEN [err |-> res.err]
    ELSE IF Len(res.val) > 0
    THEN PotentialsLoop(V, item, n + 1, Append(potentials, <<n, res.val[1][2]>>))
    ELSE PotentialsLoop(V, item, n + 1, potentials)

\* the loop over the keys of get_locmap from entry n on: the <<key index,
\* best score>> pairs of the nested matchers that return a result
PotentialsLoop(V, item, n, potentials) ==
    IF n > Len(V.vectors) THEN [err |-> "", val |-> potentials]
    ELSE IF V.vectors[n].mmq = <<>> THEN PotentialsLoop(V, item, n + 1, potentials)
    ELSE AddPotential(V, item, n, potentials,
                      find_in(V.vectors[n].mmq[1], list(item)))

\* the locmap of the key of entry n, every value multiplied by score
ScaledLocmap(V, n, score) ==
    [x \in 1..Len(V.vectors[n].locmap) |-> QMul(V.vectors[n].locmap[x], score)]

\* the first of the best potentials: the sort is stable
BestPotential(potentials) == SortDesc(potentials)[1]

\* a no-hit vector with one entry for each key of the index
FuzzyLocmapPerKey(V, pot) ==
    IF pot.err # "" THEN [err |-> pot.err]
    ELSE IF Len(pot.val) > 0
    THEN [err |-> "",
          val |-> ScaledLocmap(V, BestPotential(pot.val)[1], BestPotential(pot.val)[2])]
    ELSE [err |-> "", val |-> Repeat(Zero, Len(V.vectors))]

\* get_locmap of an item that is no key, pot being the potentials found
FuzzyLocmap(V, pot) ==
    IF pot.err # "" THEN [err |-> pot.err]
    ELSE IF Len(pot.val) > 0
    THEN [err |-> "",
          val |-> ScaledLocmap(V, BestPotential(pot.val)[1], BestPotential(pot.val)[2])]
    ELSE [err |-> "", val |-> Repeat(Zero, Len(V.items))]

\* MMQVectors.get_locmap: the vector, or the error a nested find_in raises
get_locmap(V, item) ==
    IF HasKey(V.vectors, item)
    THEN [err |-> "", val |-> V.vectors[KeyIndex(V.vectors, item)].locmap]
    ELSE FuzzyLocmap(V, PotentialsLoop(V, item, 1, <<>>))

RECURSIVE ScanLoop(_, _, _, _, _)

\* the body of the loop of find_in after shiftand returned r
ScanRecord(M, reference_items, n, results, r) ==
    IF r.err # "" THEN [err |-> r.err]
    ELSE ScanLoop(M, r.obj, reference_items, n + 1, Append(results, <<n - 1, r.score>>))

\* the body of the loop of find_in after get_locmap returned lm
ScanShift(M, T, reference_items, n, results, lm) ==
    IF lm.err # "" THEN [err |-> lm.err]
    ELSE ScanRecord(M, reference_items, n, results, shiftand(T, lm.val))

\* the loop of find_in from reference index n on (1-based); a result is
\* <<zero-based position, score>>
ScanLoop(M, T, reference_items, n, results) ==
    IF n > Len(reference_items) THEN [err |-> "", val |-> results]
    ELSE ScanShift(M, T, reference_items, n, results,
                   get_locmap(M.vectors, reference_items[n]))

\* the end of find_in: the sort and the filter
ScanReturn(M, scan) ==
    IF scan.err # "" THEN [err |-> scan.err]
    ELSE [err |-> "", val |-> FilterThreshold(SortDesc(scan.val), M.threshold)]

\* find_in once the tracker T is made
ScanWith(M, T, reference_items) ==
    IF T.err # "" THEN [err |-> T.err]
    ELSE ScanReturn(M, ScanLoop(M, T, reference_items, 1, <<>>))

\* MisMisQuote.find_in: the list returned, or the error raised
find_in(M, reference_items) ==
    ScanWith(M, NewMMQTracker(Len(M.items), M.allowed_differences,
                              M.nomatch_multiplier, M.threshold),
             reference_items)

(***************************************************************************)
(* The state machine: one matcher is constructed from the arguments drawn  *)
(* in Init, then find_in is run on it, one reference item per step.        *)
(***************************************************************************)
VARIABLES
    args,       \* the arguments of MisMisQuote(...)
    pc,         \* "new", "rejected", "ready", "scanning", "done", "failed"
    matcher,    \* <<>> or <<the MisMisQuote object>>
    tracker,    \* <<>> or <<the MMQTracker of the running find_in>>
    reference,  \* the reference items the running find_in has consumed
    results,    \* the results list of the running find_in, before the sort
    returned,   \* the list the last find_in returned
    error,      \* "" or the error raised by the last call
    shadow      \* the trackers run beside the scan to compare it with

vars == <<args, pc, matcher, tracker, reference, results, returned, error, shadow>>

PatTokens == {<<"a">>, <<"b">>, <<"a", "b">>}
RefTokens == PatTokens \cup {<<"x">>}

RECURSIVE SeqsUpTo(_, _)
SeqsUpTo(S, n) ==
    IF n = 0 THEN {<<>>}
    ELSE SeqsUpTo(S, n - 1)
         \cup {Append(q, x) : q \in {r \in SeqsUpTo(S, n - 1) : Len(r) = n - 1}, x \in S}

Patterns == SeqsUpTo(PatTokens, MaxPatLen)
Differences == -1..MaxPatLen
Multipliers == {Zero, Half, One}
Thresholds == {Zero, Half, One, Q(3, 2)}

Init ==
    /\ args \in [items : Patterns,
                 allowed_differences : Differences,
                 nomatch_multiplier : Multipliers,
                 threshold : Thresholds]
    /\ pc = "new"
    /\ matcher = <<>>
    /\ tracker = <<>>
    /\ reference = <<>>
    /\ results = <<>>
    /\ returned = <<>>
    /\ error = ""
    /\ shadow = <<>>

\* the constructor returned or raised m
Constructed(m) ==
    IF m.err # ""
    THEN /\ pc' = "rejected"
         /\ error' = m.err
         /\ matcher' = <<>>
    ELSE /\ pc' = "ready"
         /\ error' = ""
         /\ matcher' = <<m.obj>>

\* MisMisQuote(items, allowed_differences=, nomatch_multiplier=, threshold=)
Construct ==
    /\ pc = "new"
    /\ Constructed(NewMisMisQuote(args.items, args.allowed_differences,
                                  args.nomatch_multiplier, args.threshold))
    /\ UNCHANGED <<args, tracker, reference, results, returned>>

\* MMQTracker(...) returned or raised T
TrackerMade(T) ==
    IF T.err # ""
    THEN /\ pc' = "failed"
         /\ error' = T.err
         /\ tracker' = <<>>
    ELSE /\ pc' = "scanning"
         /\ error' = ""
         /\ tracker' = <<T>>

\* find_in, up to the loop: the tracker is created
FindInStart ==
    /\ pc \in {"ready", "done"}
    /\ TrackerMade(NewMMQTracker(Len(matcher[1].items), matcher[1].allowed_differences,
                                 matcher[1].nomatch_multiplier, matcher[1].threshold))
    /\ reference' = <<>>
    /\ results' = <<>>
    /\ returned' = <<>>
    /\ UNCHANGED <<args, matcher>>

\* shiftand returned or raised r
Advanced(r) ==
    IF r.err # ""
    THEN /\ pc' = "failed"
         /\ error' = r.err
         /\ UNCHANGED <<tracker, results>>
    ELSE /\ pc' = "scanning"
         /\ error' = ""
         /\ tracker' = <<r.obj>>
         /\ results' = Append(results, <<Len(reference), r.score>>)

\* get_locmap returned or raised lm
Located(lm) ==
    IF lm.err # ""
    THEN /\ pc' = "failed"
         /\ error' = lm.err
         /\ UNCHANGED <<tracker, results>>
    ELSE Advanced(shiftand(tracker[1], lm.val))

\* one iteration of the loop of find_in, on the next reference item
ScanStep(item) ==
    /\ pc = "scanning"
    /\ Len(reference) < MaxRefLen
    /\ reference' = Append(reference, item)
    /\ Located(get_locmap(matcher[1].vectors, item))
    /\ UNCHANGED <<args, matcher, returned>>

\* the end of find_in: the sort, the filter and the return
FindInReturn ==
    /\ pc = "scanning"
    /\ pc' = "done"
    /\ returned' = FilterThreshold(SortDesc(results), matcher[1].threshold)
    /\ UNCHANGED <<args, matcher, tracker, reference, results, error>>

Next ==
    \/ Construct /\ UNCHANGED shadow
    \/ FindInStart /\ UNCHANGED shadow
    \/ \E item \in RefTokens : ScanStep(item) /\ UNCHANGED shadow
    \/ FindInReturn /\ UNCHANGED shadow

Spec == Init /\ [][Next]_vars

(***************************************************************************)
(* The scan beside trackers of other multipliers: every shiftand of the    *)
(* scan is also made, with the same locmap, on one tracker for each        *)
(* multiplier of DecayMultipliers, and their scores are kept.              *)
(***************************************************************************)
DecayMultipliers == {Q(1, 4), Q(3, 4)}

\* with the tracker of find_in, the trackers of the other multipliers
DecayStart ==
    shadow' =
        IF pc' = "scanning"
        THEN [m2 \in DecayMultipliers |->
                 [T |-> NewMMQTracker(Len(matcher[1].items),
                                      matcher[1].allowed_differences, m2,
                                      matcher[1].threshold),
                  scores |-> <<>>]]
        ELSE <<>>

\* one tracker beside the scan after shiftand returned r on it
DecayAdvanced(sh, r) == [T |-> r.obj, scores |-> Append(sh.scores, r.score)]

\* with a shiftand of find_in, the same on the other trackers
DecayStep(item) ==
    shadow' =
        IF pc' = "scanning"
        THEN [m2 \in DecayMultipliers |->
                 DecayAdvanced(shadow[m2],
                     shiftand(shadow[m2].T, get_locmap(matcher[1].vectors, item).val))]
        ELSE shadow

NextDecay ==
    \/ Construct /\ UNCHANGED shadow
    \/ FindInStart /\ DecayStart
    \/ \E item \in RefTokens : ScanStep(item) /\ DecayStep(item)
    \/ FindInReturn /\ UNCHANGED shadow

\* the scans compared run on the vectors get_locmap returns; the threshold
\* enters them through the nested matchers alone, where it drops a fuzzy
\* hit or keeps it: two thresholds give both
InitDecay ==
    /\ args \in [items : Patterns,
                 allowed_differences : Differences,
                 nomatch_multiplier : Multipliers,
                 threshold : {Zero, Half}]
    /\ pc = "new"
    /\ matcher = <<>>
    /\ tracker = <<>>
    /\ reference = <<>>
    /\ results = <<>>
    /\ returned = <<>>
    /\ error = ""
    /\ shadow = <<>>

SpecDecay == InitDecay /\ [][NextDecay]_vars

(***************************************************************************)
(* Vocabulary of the properties.                                           *)
(***************************************************************************)
Scanned == pc \in {"scanning", "done"}

Length == Len(args.items)

DefaultConfig ==
    /\ args.allowed_differences = 0
    /\ args.nomatch_multiplier = Zero
    /\ args.threshold = One

\* the configuration that section 3 of the specification calls valid
ValidConfig ==
    /\ Length >= 1
    /\ args.allowed_differences >= 0
    /\ args.allowed_differences < Length
    /\ QLe(Zero, args.nomatch_multiplier) /\ QLt(args.nomatch_multiplier, One)
    /\ QLe(Zero, args.threshold) /\ QLe(args.threshold, One)

\* the score of zero-based reference position p in the running scan
ScoreAt(p) == results[p + 1][2]

Positions == 0..(Len(results) - 1)

\* the n reference items ending at zero-based position p are the first n
\* pattern items
PrefixEndsAt(n, p) ==
    /\ n >= 1
    /\ p + 1 >= n
    /\ p + 1 <= Len(reference)
    /\ \A i \in 1..n : reference[p + 1 - n + i] = args.items[i]

\* the alignment vector of the k-th reference item of the running scan
AlignOf(k) == get_locmap(matcher[1].vectors, reference[k]).val

RECURSIVE QPow(_, _)
QPow(x, k) == IF k = 0 THEN One ELSE QMul(x, QPow(x, k - 1))

InReturned(r) == \E k \in 1..Len(returned) : returned[k] = r

(***************************************************************************)
(* C1: with the default configuration, wherever the reference holds the    *)
(* whole pattern verbatim as a contiguous run ending at position p, the    *)
(* list find_in returns holds the result (p, 1.0).                         *)
(***************************************************************************)
C1_ExactMatch ==
    (pc = "done" /\ DefaultConfig) =>
        \A p \in Positions : PrefixEndsAt(Length, p) => InReturned(<<p, One>>)

\* the pattern, two items long, found at an offset past 0
C1_Witness ==
    /\ pc = "done" /\ DefaultConfig
    /\ Length = 2
    /\ PrefixEndsAt(Length, 2)
    /\ ~PrefixEndsAt(Length, 1)
    /\ InReturned(<<2, One>>)

(***************************************************************************)
(* C2: every score shiftand returns to find_in, and so every score of the  *)
(* list find_in returns, lies in [0.0, 1.0].                               *)
(***************************************************************************)
C2_ConfidenceInUnitInterval ==
    /\ \A k \in 1..Len(results) :
           QLe(Zero, results[k][2]) /\ QLe(results[k][2], One)
    /\ \A k \in 1..Len(returned) :
           QLe(Zero, returned[k][2]) /\ QLe(returned[k][2], One)

\* a call whose sum passed 1.0 and was cut back: the new state holds 1.0
\* at entry 0 and more than 0.0 at entry 1, with a difference allowed
C2_Witness ==
    /\ pc = "scanning" /\ Len(results) >= 2
    /\ args.allowed_differences >= 1
    /\ tracker[1].tracker[Len(tracker[1].tracker)][1] = One
    /\ QLt(Zero, tracker[1].tracker[Len(tracker[1].tracker)][2])
    /\ ScoreAt(Len(results) - 1) = One
    /\ \E p \in Positions : QLt(Zero, ScoreAt(p)) /\ QLt(ScoreAt(p), One)

(***************************************************************************)
(* C3: the list find_in returns holds exactly the records (i, score_i) of  *)
(* the n reference positions whose score is >= threshold, each once.       *)
(***************************************************************************)
C3_ThresholdFilterExact ==
    pc = "done" =>
        /\ Len(results) = Len(reference)
        /\ \A i \in 1..Len(results) : results[i][1] = i - 1
        /\ \A i \in 1..Len(results) :
               Cardinality({k \in 1..Len(returned) : returned[k] = results[i]})
                   = IF QLe(args.threshold, results[i][2]) THEN 1 ELSE 0
        /\ \A k \in 1..Len(returned) :
               /\ \E i \in 1..Len(results) : returned[k] = results[i]
               /\ QLe(args.threshold, returned[k][2])

\* a scan with a score below the threshold, one equal to it and one above
C3_Witness ==
    /\ pc = "done"
    /\ \E i, j, k \in 1..Len(results) :
           /\ QLt(results[i][2], args.threshold)
           /\ results[j][2] = args.threshold
           /\ QLt(args.threshold, results[k][2])
    /\ Len(returned) = 2

(***************************************************************************)
(* C4: the list find_in returns is sorted by score descending, and among   *)
(* equal scores by reference position ascending.                           *)
(***************************************************************************)
C4_SortedDescendingStable ==
    pc = "done" =>
        \A k, n \in 1..Len(returned) :
            k < n => \/ QLt(returned[n][2], returned[k][2])
                     \/ (returned[n][2] = returned[k][2] /\ returned[k][1] < returned[n][1])

\* a returned list where the sort moved a later position to the front and
\* kept two equal scores in position order
C4_Witness ==
    /\ pc = "done"
    /\ Len(returned) = 3
    /\ returned[1][1] = 2
    /\ returned[2][2] = returned[3][2]
    /\ returned[2][1] = 0 /\ returned[3][1] = 1

(***************************************************************************)
(* C5: monotonic decay, under SpecDecay.  The scan of the state runs with  *)
(* the multiplier m1 = args.nomatch_multiplier; it is compared, position   *)
(* by position, with a scan under a multiplier m2 at least as large.       *)
(***************************************************************************)
\* the per-position scores of a matcher built with multiplier m2 on the
\* reference of the running scan
OtherMatcherScores(m2) ==
    ScanLoop(NewMisMisQuote(args.items, args.allowed_differences, m2,
                            args.threshold).obj,
             NewMMQTracker(Length, args.allowed_differences, m2, args.threshold),
             reference, 1, <<>>).val

\* C5 as stated: for every pair of multipliers m1 <= m2 the score of the
\* same pattern and reference under m2 is >= the score under m1 at every
\* reference position, also when allowed_differences > 0 and m1 = 0.
C5_MonotonicDecay ==
    Scanned =>
        \A m2 \in DecayMultipliers :
            QLe(args.nomatch_multiplier, m2) =>
                LET other == OtherMatcherScores(m2)
                IN  \A p \in Positions : QLe(ScoreAt(p), other[p + 1][2])

\* C5 as amended: on the same alignment vectors, and with m1 > 0 or
\* allowed_differences = 0, the score shiftand returns under m2 >= m1 is
\* >= the score it returns under m1, at every reference position.
C5_MonotonicDecaySameFiller ==
    Scanned =>
        \A m2 \in DecayMultipliers :
            (/\ QLe(args.nomatch_multiplier, m2)
             /\ (QLt(Zero, args.nomatch_multiplier) \/ args.allowed_differences = 0)) =>
                /\ Len(shadow[m2].scores) = Len(results)
                /\ \A p \in Positions : QLe(ScoreAt(p), shadow[m2].scores[p + 1])

\* two positive multipliers, a difference allowed, a fuzzy alignment
\* vector among those fed, and a position where the larger one scores more
C5_Witness ==
    /\ pc = "scanning"
    /\ args.nomatch_multiplier = Half
    /\ args.allowed_differences >= 1
    /\ \E k \in 1..Len(reference), x \in 1..Length :
           QLt(Zero, AlignOf(k)[x]) /\ QLt(AlignOf(k)[x], One)
    /\ \E p \in Positions : QLt(ScoreAt(p), shadow[Q(3, 4)].scores[p + 1])

(***************************************************************************)
(* C6: trailing-miss tolerance.  With allowed_differences = d >= 1, for    *)
(* 1 <= k <= d, wherever the reference items ending at p are the first     *)
(* L - k pattern items, the score at p is >= 1/(k+1), the float            *)
(* 1.0 / (k + 1) that the code adds for that hypothesis.                   *)
(***************************************************************************)
C6_TrailingMissTolerance ==
    (Scanned /\ args.allowed_differences >= 1) =>
        \A k \in 1..args.allowed_differences, p \in Positions :
            PrefixEndsAt(Length - k, p) => QLe(QDivInt(One, k + 1), ScoreAt(p))

\* two trailing pattern items missing, credited with exactly 1/3
C6_Witness ==
    /\ pc = "scanning"
    /\ args.allowed_differences = 2
    /\ \E p \in Positions :
           /\ PrefixEndsAt(Length - 2, p)
           /\ ~PrefixEndsAt(Length - 1, p)
           /\ ScoreAt(p) = QDivInt(One, 3)

(***************************************************************************)
(* C7: multiplier decay.  With allowed_differences = 0 and a multiplier    *)
(* m > 0, a window of L reference items ending at p whose items equal the  *)
(* pattern item of their place, but for k of them whose alignment with     *)
(* the pattern item of their place is 0.0, scores exactly m^k at p.        *)
(***************************************************************************)
\* the window ending at p: place i holds the pattern item or a hard miss
WindowOfMisses(p) ==
    /\ p + 1 >= Length
    /\ \A i \in 1..Length :
           \/ reference[p + 1 - Length + i] = args.items[i]
           \/ AlignOf(p + 1 - Length + i)[i] = Zero

Misses(p) ==
    Cardinality({i \in 1..Length : reference[p + 1 - Length + i] # args.items[i]})

C7_MultiplierDecay ==
    (/\ Scanned
     /\ args.allowed_differences = 0
     /\ QLt(Zero, args.nomatch_multiplier)) =>
        \A p \in Positions :
            WindowOfMisses(p) => ScoreAt(p) = QPow(args.nomatch_multiplier, Misses(p))

\* a window that starts past position 0, with one match and one miss
C7_Witness ==
    /\ pc = "scanning"
    /\ args.allowed_differences = 0
    /\ args.nomatch_multiplier = Half
    /\ Length = 2 /\ Len(reference) = 3
    /\ WindowOfMisses(2)
    /\ reference[2] = args.items[1]
    /\ reference[3] # args.items[2]
    /\ ScoreAt(2) = Half

(***************************************************************************)
(* C8: allowed_differences counts items missing or different.  With        *)
(* allowed_differences = 1 and multiplier 0, for a pattern of L >= 2       *)
(* items and a reference that is the pattern with one item deleted, or     *)
(* with one item replaced by an item that is no pattern item, the best     *)
(* score over the reference positions is 1/2.  Stated for the patterns of  *)
(* pairwise different items, where the one miss is not ambiguous.          *)
(***************************************************************************)
DistinctItems == \A i, n \in 1..Length : i # n => args.items[i] # args.items[n]

IsPatternItem(item) == \E i \in 1..Length : args.items[i] = item

\* the pattern without its i-th item
Without(i) == SubSeq(args.items, 1, i - 1) \o SubSeq(args.items, i + 1, Length)

OneItemDeleted == \E i \in 1..Length : reference = Without(i)

\* the replacing item is no pattern item and has alignment 0.0 with all
OneItemReplaced ==
    /\ Len(reference) = Length
    /\ \E i \in 1..Length :
           /\ ~IsPatternItem(reference[i])
           /\ \A x \in 1..Length : AlignOf(i)[x] = Zero
           /\ \A n \in 1..Length : n # i => reference[n] = args.items[n]

BestScoreIs(x) ==
    /\ \E p \in Positions : ScoreAt(p) = x
    /\ \A p \in Positions : QLe(ScoreAt(p), x)

C8_OneMissScoresHalf ==
    (/\ Scanned
     /\ args.allowed_differences = 1
     /\ args.nomatch_multiplier = Zero
     /\ Length >= 2
     /\ DistinctItems
     /\ (OneItemDeleted \/ OneItemReplaced)) => BestScoreIs(Half)

(***************************************************************************)
(* C9: validation is eager.  A matcher that MisMisQuote(...) returned has  *)
(* a valid configuration: a non-empty pattern, 0 <= allowed_differences    *)
(* < L, a multiplier in [0, 1) and a threshold in [0, 1].                  *)
(***************************************************************************)
C9_EagerValidation == pc = "ready" => ValidConfig

(***************************************************************************)
(* C10: find_in on a matcher with a valid configuration never fails with   *)
(* a validation error, also when the pattern holds compound items whose    *)
(* nested matchers inherit allowed_differences.                            *)
(***************************************************************************)
C10_FindInNeverFails == ValidConfig => pc # "failed"

(***************************************************************************)
(* C11: get_locmap of a token that is no pattern token runs the nested     *)
(* matcher of every compound pattern token on the elements of the token,   *)
(* takes the best confidence of each, and returns the occurrence vector of *)
(* the pattern token with the highest one (the first inserted on ties),    *)
(* every entry multiplied by that confidence; without any candidate it     *)
(* returns the all-zero vector.  Of a pattern token it returns the 0.0/1.0 *)
(* occurrence vector.  Stated for the matcher of a valid configuration.    *)
(***************************************************************************)
\* the 0.0/1.0 vector of the positions of the pattern items that token is
Occurrences(items, token) ==
    [k \in 1..Len(items) |-> IF items[k] = token THEN One ELSE Zero]

\* the highest confidence of a non-empty list of results
BestConfidence(res) ==
    CHOOSE c \in {res[k][2] : k \in 1..Len(res)} :
        \A k \in 1..Len(res) : QLe(res[k][2], c)

\* what the nested matcher of entry n returns on the elements of token
NestedResult(V, n, token) == find_in(V.vectors[n].mmq[1], list(token))

\* the entries whose nested matcher returns a candidate for token
Candidates(V, token) ==
    {n \in 1..Len(V.vectors) :
        /\ V.vectors[n].mmq # <<>>
        /\ NestedResult(V, n, token).err = ""
        /\ Len(NestedResult(V, n, token).val) > 0}

\* the first inserted of the candidates of the highest confidence
Winner(V, token) ==
    CHOOSE n \in Candidates(V, token) :
        \A n2 \in Candidates(V, token) :
            \/ QLt(BestConfidence(NestedResult(V, n2, token).val),
                   BestConfidence(NestedResult(V, n, token).val))
            \/ /\ BestConfidence(NestedResult(V, n2, token).val)
                    = BestConfidence(NestedResult(V, n, token).val)
               /\ n <= n2

\* the vector the claim gives for a token that is no pattern token
FuzzyVector(V, token) ==
    IF Candidates(V, token) = {} THEN Repeat(Zero, Len(V.items))
    ELSE [k \in 1..Len(V.items) |->
             QMul(Occurrences(V.items, V.vectors[Winner(V, token)].key)[k],
                  BestConfidence(NestedResult(V, Winner(V, token), token).val))]

\* get_locmap returned lm, and lm is the vector of the claim
QueryReturns(V, token, lm) ==
    /\ lm.err = ""
    /\ lm.val = IF \E k \in 1..Len(V.items) : V.items[k] = token
                THEN Occurrences(V.items, token)
                ELSE FuzzyVector(V, token)

C11_QueryVector ==
    pc = "ready" /\ ValidConfig =>
        \A token \in RefTokens :
            QueryReturns(matcher[1].vectors, token,
                         get_locmap(matcher[1].vectors, token))

(***************************************************************************)
(* Two scans of one matcher, step by step.  The lists of the source are    *)
(* objects: a list lives at a place, <<"fresh">> for a list the expression *)
(* has just built and <<"locmap", n>> for the occurrence vector of entry n *)
(* of the index, and an assignment to an element of a list changes the     *)
(* object at its place.  The matcher after a step is the matcher with the  *)
(* writes of the step made.                                                *)
(***************************************************************************)
MaxSharedLen == 2

FreshList == <<"fresh">>

\* the place of the list get_locmap returns: the list of the index itself
\* on an exact hit, a list built by list(map(...)) or [0.0] * n otherwise
LocmapPlace(V, item) ==
    IF HasKey(V.vectors, item)
    THEN <<"locmap", KeyIndex(V.vectors, item)>>
    ELSE FreshList

\* an 'and' that assigns to the elements of matches
AndTrackerTargetMatches(newtracker_place, matches_place) == matches_place

\* _and_tracker assigns to the elements of newtracker, its first argument
AndTrackerTarget(newtracker_place, matches_place) == newtracker_place

\* the index V after value is assigned to the list at place
Written(V, place, value) ==
    IF place[1] = "locmap"
    THEN [V EXCEPT !.vectors[place[2]].locmap = value]
    ELSE V

\* the index after the _and_tracker calls of the loop of shiftand from j
\* on, T holding the appended state; their first argument is the list
\* _shift_old_tracker builds
RECURSIVE AltWrites(_, _, _, _, _)
AltWrites(V, T, place, locmap, j) ==
    IF j >= T.allowed_differences THEN V
    ELSE IF j < Len(T.tracker) - 1
    THEN AltWrites(Written(V, AndTrackerTarget(FreshList, place),
                           _and_tracker(T, _shift_old_tracker(T, j), locmap)),
                   T, place, locmap, j + 1)
    ELSE AltWrites(V, T, place, locmap, j + 1)

\* the index after a shiftand that left the tracker T: the first
\* _and_tracker is called on the list _shift_last_tracker builds
ShiftandWrites(V, T, place, locmap) ==
    AltWrites(Written(V, AndTrackerTarget(FreshList, place),
                      T.tracker[Len(T.tracker)]),
              T, place, locmap, 0)

RECURSIVE MatcherAfterScan(_, _, _, _)

\* the matcher after find_in on reference_items, T being its tracker
ScanWrites(M, T, reference_items) ==
    IF T.err # "" THEN M ELSE MatcherAfterScan(M, T, reference_items, 1)

\* the matcher after the nested find_in calls of get_locmap(item)
QueryWrites(M, item) ==
    IF HasKey(M.vectors.vectors, item) THEN M
    ELSE [M EXCEPT !.vectors.vectors =
             [n \in 1..Len(@) |->
                 IF @[n].mmq = <<>> THEN @[n]
                 ELSE [@[n] EXCEPT !.mmq =
                          <<ScanWrites(@[1],
                                NewMMQTracker(Len(@[1].items), @[1].allowed_differences,
                                              @[1].nomatch_multiplier, @[1].threshold),
                                list(item))>>]]]

\* one iteration of the loop of find_in once shiftand returned r
StepDone(M, place, locmap, r) ==
    IF r.err # "" THEN [err |-> r.err, M |-> M]
    ELSE [err |-> "",
          M |-> [M EXCEPT !.vectors = ShiftandWrites(@, r.obj, place, locmap)],
          T |-> r.obj,
          score |-> r.score]

\* one iteration of the loop of find_in once get_locmap returned lm
StepShift(M, T, place, lm) ==
    IF lm.err # "" THEN [err |-> lm.err, M |-> M]
    ELSE StepDone(M, place, lm.val, shiftand(T, lm.val))

\* one iteration of the loop of find_in: the matcher and the tracker after
\* it and the score, or the error it raises
ItemStep(M, T, item) ==
    StepShift(QueryWrites(M, item), T, LocmapPlace(M.vectors, item),
              get_locmap(M.vectors, item))

\* the rest of the loop of find_in after the iteration st
StepThen(reference_items, n, st) ==
    IF st.err # "" THEN st.M
    ELSE MatcherAfterScan(st.M, st.T, reference_items, n + 1)

\* the matcher after the loop of find_in from reference index n on
MatcherAfterScan(M, T, reference_items, n) ==
    IF n > Len(reference_items) THEN M
    ELSE StepThen(reference_items, n, ItemStep(M, T, reference_items[n]))

SharedPatTokens == {<<"a">>, <<"a", "b">>}
SharedRefTokens == {<<"a">>, <<"a", "b">>, <<"x">>}
OtherRefTokens == {<<"a", "b">>, <<"x">>}

InitShared ==
    /\ args \in [items : SeqsUpTo(SharedPatTokens, MaxSharedLen) \ {<<>>},
                 allowed_differences : 0..(MaxSharedLen - 1),
                 nomatch_multiplier : {Zero, Half},
                 threshold : {Half}]
    /\ pc = "new"
    /\ matcher = <<>>
    /\ tracker = <<>>
    /\ reference = <<>>
    /\ results = <<>>
    /\ returned = <<>>
    /\ error = ""
    /\ shadow = <<>>

\* one iteration of the loop of the first find_in, with its writes
SharedScanStep(item) ==
    /\ pc = "scanning"
    /\ Len(reference) < MaxSharedLen
    /\ reference' = Append(reference, item)
    /\ Located(get_locmap(matcher[1].vectors, item))
    /\ matcher' = <<ItemStep(matcher[1], tracker[1], item).M>>
    /\ UNCHANGED <<args, returned, shadow>>

\* the second find_in after MMQTracker(...) returned or raised T
OtherTrackerMade(T) ==
    IF T.err # ""
    THEN [pc |-> "failed", tracker |-> <<>>, reference |-> <<>>,
          results |-> <<>>, returned |-> <<>>]
    ELSE [pc |-> "scanning", tracker |-> <<T>>, reference |-> <<>>,
          results |-> <<>>, returned |-> <<>>]

\* a second find_in on the same matcher, up to its loop
OtherFindInStart ==
    /\ matcher # <<>>
    /\ shadow = <<>>
    /\ shadow' = OtherTrackerMade(
                     NewMMQTracker(Len(matcher[1].items), matcher[1].allowed_differences,
                                   matcher[1].nomatch_multiplier, matcher[1].threshold))
    /\ UNCHANGED <<args, pc, matcher, tracker, reference, results, returned, error>>

\* the second find_in after the iteration st of its loop
OtherStepped(item, st) ==
    /\ matcher' = <<st.M>>
    /\ shadow' =
           IF st.err # ""
           THEN [shadow EXCEPT !.pc = "failed", !.reference = Append(@, item)]
           ELSE [shadow EXCEPT !.tracker = <<st.T>>,
                               !.reference = Append(@, item),
                               !.results = Append(@, <<Len(shadow.reference), st.score>>)]

\* one iteration of the loop of the second find_in, with its writes
OtherScanStep(item) ==
    /\ shadow # <<>>
    /\ shadow.pc = "scanning"
    /\ Len(shadow.reference) < MaxSharedLen
    /\ OtherStepped(item, ItemStep(matcher[1], shadow.tracker[1], item))
    /\ UNCHANGED <<args, pc, tracker, reference, results, returned, error>>

\* the end of the second find_in
OtherFindInReturn ==
    /\ shadow # <<>>
    /\ shadow.pc = "scanning"
    /\ shadow' = [shadow EXCEPT
                     !.pc = "done",
                     !.returned = FilterThreshold(SortDesc(shadow.results),
                                                  matcher[1].threshold)]
    /\ UNCHANGED <<args, pc, matcher, tracker, reference, results, returned, error>>

NextShared ==
    \/ Construct /\ UNCHANGED shadow
    \/ FindInStart /\ UNCHANGED shadow
    \/ \E item \in SharedRefTokens : SharedScanStep(item)
    \/ FindInReturn /\ UNCHANGED shadow
    \/ OtherFindInStart
    \/ \E item \in OtherRefTokens : OtherScanStep(item)
    \/ OtherFindInReturn

SpecShared == InitShared /\ [][NextShared]_vars

(***************************************************************************)
(* C12: a matcher is immutable after construction.  Through any            *)
(* interleaving of the steps of two find_in calls on it, each with its own *)
(* tracker, the matcher stays the object the constructor built (pattern,   *)
(* configuration, occurrence vectors, nested matchers), and each call      *)
(* returns the list it returns when run alone.                             *)
(***************************************************************************)
\* the matcher as MisMisQuote(...) builds it from the arguments
Built ==
    NewMisMisQuote(args.items, args.allowed_differences,
                   args.nomatch_multiplier, args.threshold).obj

\* what find_in returns when run alone on the matcher as built
Alone(reference_items) == find_in(Built, reference_items)

C12_MatcherImmutable ==
    /\ matcher # <<>> => matcher[1] = Built
    /\ pc = "done" => Alone(reference) = [err |-> "", val |-> returned]
    /\ shadow # <<>> /\ shadow.pc = "done" =>
           Alone(shadow.reference) = [err |-> "", val |-> shadow.returned]

\* both calls went through exact hits and a nested find_in, in turns, and
\* both have returned
C12_Witness ==
    /\ pc = "done" /\ shadow # <<>> /\ shadow.pc = "done"
    /\ Len(reference) = 2 /\ Len(shadow.reference) = 2
    /\ reference # shadow.reference
    /\ \E k \in 1..2 : HasKey(matcher[1].vectors.vectors, reference[k])
    /\ \E k \in 1..2 : HasKey(matcher[1].vectors.vectors, shadow.reference[k])
    /\ \E k \in 1..2 : /\ ~HasKey(matcher[1].vectors.vectors, shadow.reference[k])
                       /\ \E n \in 1..Len(matcher[1].vectors.vectors) :
                              matcher[1].vectors.vectors[n].mmq # <<>>
    /\ Len(returned) > 0 /\ Len(shadow.returned) > 0

(***************************************************************************)
(* _or called on its own, on scores inside and outside [0.0, 1.0] and      *)
(* distances from -2 on.  The three checks build a ValueError that is not  *)
(* raised, so the call goes on to the return statement; there 2 + howold   *)
(* is the divisor, and a divisor of 0 raises ZeroDivisionError.            *)
(***************************************************************************)
OrScores == {Q(-1, 2), Zero, Half, One, Q(3, 2)}
OrDistances == -2..2

\* _or(newscore, oldscore, howold): the value returned or the error raised
OrCall(newscore, oldscore, howold) ==
    IF 2 + howold = 0 THEN [err |-> "ZeroDivisionError"]
    ELSE [err |-> "", val |-> _or(newscore, oldscore, howold)]

InitOr ==
    /\ args \in [newscore : OrScores, oldscore : OrScores, howold : OrDistances]
    /\ pc = "new"
    /\ matcher = <<>>
    /\ tracker = <<>>
    /\ reference = <<>>
    /\ results = <<>>
    /\ returned = <<>>
    /\ error = ""
    /\ shadow = <<>>

\* the call returned or raised r
OrDone(r) ==
    IF r.err # ""
    THEN /\ pc' = "raised"
         /\ error' = r.err
         /\ returned' = <<>>
    ELSE /\ pc' = "returned"
         /\ error' = ""
         /\ returned' = <<r.val>>

CallOr ==
    /\ pc = "new"
    /\ OrDone(OrCall(args.newscore, args.oldscore, args.howold))
    /\ UNCHANGED <<args, matcher, tracker, reference, results, shadow>>

NextOr == CallOr

SpecOr == InitOr /\ [][NextOr]_vars

(***************************************************************************)
(* C13: _or rejects contract violations.  A call with newscore or oldscore *)
(* outside [0.0, 1.0], or with howold < 0, raises an error instead of      *)
(* returning a value.                                                      *)
(***************************************************************************)
OutsideUnit(x) == QLt(x, Zero) \/ QLt(One, x)

C13_OrRejects ==
    /\ pc # "new"
    /\ \/ OutsideUnit(args.newscore)
       \/ OutsideUnit(args.oldscore)
       \/ args.howold < 0
    => pc = "raised"

(***************************************************************************)
(* Short scans, of every pattern and tolerance, for the claims about the   *)
(* index.                                                                  *)
(***************************************************************************)
MaxIndexLen == 2

InitIndex ==
    /\ args \in [items : Patterns \ {<<>>},
                 allowed_differences : 0..(MaxPatLen - 1),
                 nomatch_multiplier : {Zero, Half},
                 threshold : {Zero, Half}]
    /\ pc = "new"
    /\ matcher = <<>>
    /\ tracker = <<>>
    /\ reference = <<>>
    /\ results = <<>>
    /\ returned = <<>>
    /\ error = ""
    /\ shadow = <<>>

\* one iteration of the loop of find_in, on references of up to
\* MaxIndexLen items
ShortScanStep(item) ==
    /\ pc = "scanning"
    /\ Len(reference) < MaxIndexLen
    /\ reference' = Append(reference, item)
    /\ Located(get_locmap(matcher[1].vectors, item))
    /\ UNCHANGED <<args, matcher, returned>>

NextIndex ==
    \/ Construct /\ UNCHANGED shadow
    \/ FindInStart /\ UNCHANGED shadow
    \/ \E item \in RefTokens : ShortScanStep(item) /\ UNCHANGED shadow
    \/ FindInReturn /\ UNCHANGED shadow

SpecIndex == InitIndex /\ [][NextIndex]_vars

(***************************************************************************)
(* C14: every vector get_locmap returns (exact hit, fuzzy hit, no hit) has *)
(* the length of the pattern, in the index of the matcher and in the       *)
(* indexes of its nested matchers, so no shiftand of find_in raises on the *)
(* length of its locmap: a find_in that fails in its loop fails in         *)
(* get_locmap.                                                             *)
(***************************************************************************)
LastItem == reference[Len(reference)]

\* get_locmap returned lm, a vector of length n
VectorOfLength(lm, n) == lm.err = "" /\ Len(lm.val) = n

\* the vectors the nested matchers of V return for the elements of item
NestedVectorsOfLength(V, item) ==
    \A n \in 1..Len(V.vectors) :
        V.vectors[n].mmq # <<>> =>
            \A c \in 1..Len(item) :
                VectorOfLength(get_locmap(V.vectors[n].mmq[1].vectors, <<item[c]>>),
                               Len(V.vectors[n].key))

C14_VectorLength ==
    /\ pc = "scanning" /\ Len(reference) > 0 =>
           /\ VectorOfLength(get_locmap(matcher[1].vectors, LastItem), Length)
           /\ NestedVectorsOfLength(matcher[1].vectors, LastItem)
    /\ pc = "failed" /\ Len(reference) > 0 =>
           get_locmap(matcher[1].vectors, LastItem).err # ""

\* a scan of a pattern with a repeated token that went through a fuzzy
\* hit and a hit of nothing
C14_Witness ==
    /\ pc = "scanning" /\ Len(reference) = 2
    /\ Len(matcher[1].vectors.vectors) < Length
    /\ ~HasKey(matcher[1].vectors.vectors, reference[1])
    /\ \E n \in 1..Length : QLt(Zero, AlignOf(1)[n]) /\ QLt(AlignOf(1)[n], One)
    /\ ~HasKey(matcher[1].vectors.vectors, reference[2])
    /\ AlignOf(2) = Repeat(Zero, Length)

(***************************************************************************)
(* Longer scans of patterns of distinct tokens, with valid configurations: *)
(* find_in on references one item longer than those of Spec, the tracker   *)
(* keeping every state shiftand appended.                                  *)
(***************************************************************************)
TrackPatterns ==
    {q \in Patterns : Len(q) > 0 /\ \A i, n \in 1..Len(q) : i # n => q[i] # q[n]}

TrackArgs ==
    {a \in {[items |-> q, allowed_differences |-> d,
             nomatch_multiplier |-> m, threshold |-> Zero] :
                q \in TrackPatterns, d \in 0..(MaxPatLen - 1), m \in {Zero, Half}} :
        a.allowed_differences < Len(a.items)}

InitTrack ==
    /\ args \in TrackArgs
    /\ pc = "new"
    /\ matcher = <<>>
    /\ tracker = <<>>
    /\ reference = <<>>
    /\ results = <<>>
    /\ returned = <<>>
    /\ error = ""
    /\ shadow = <<>>

\* one iteration of the loop of find_in, on references one item longer
\* than those of ScanStep
LongScanStep(item) ==
    /\ pc = "scanning"
    /\ Len(reference) < MaxRefLen + 1
    /\ reference' = Append(reference, item)
    /\ Located(get_locmap(matcher[1].vectors, item))
    /\ UNCHANGED <<args, matcher, returned>>

NextTrack ==
    \/ Construct /\ UNCHANGED shadow
    \/ FindInStart /\ UNCHANGED shadow
    \/ \E item \in RefTokens : LongScanStep(item) /\ UNCHANGED shadow
    \/ FindInReturn /\ UNCHANGED shadow

SpecTrack == InitTrack /\ [][NextTrack]_vars

(***************************************************************************)
(* Scans of patterns of distinct one-character tokens, which build no      *)
(* nested matcher, with valid configurations up to allowed_differences =   *)
(* length - 1.  A token is only looked up in the index (get_locmap, lines  *)
(* 228-230) and one-character pattern items are no fuzzy candidates (line  *)
(* 237), so the patterns are the first tokens of one list of distinct      *)
(* tokens; the references are all sequences over these tokens and one      *)
(* token of no pattern.                                                    *)
(***************************************************************************)
InsertLetters == <<"a", "b", "c", "d", "e">>

InsertPatterns == {[i \in 1..n |-> <<InsertLetters[i]>>] : n \in 1..MaxPatLen}

InsertRefTokens == {<<InsertLetters[i]>> : i \in 1..MaxPatLen} \cup {<<"x">>}

InsertArgs ==
    {a \in {[items |-> q, allowed_differences |-> d,
             nomatch_multiplier |-> m, threshold |-> Zero] :
                q \in InsertPatterns, d \in 0..(MaxPatLen - 1), m \in {Zero, Half}} :
        a.allowed_differences < Len(a.items)}

InitInsert ==
    /\ args \in InsertArgs
    /\ pc = "new"
    /\ matcher = <<>>
    /\ tracker = <<>>
    /\ reference = <<>>
    /\ results = <<>>
    /\ returned = <<>>
    /\ error = ""
    /\ shadow = <<>>

NextInsert ==
    \/ Construct /\ UNCHANGED shadow
    \/ FindInStart /\ UNCHANGED shadow
    \/ \E item \in InsertRefTokens : LongScanStep(item) /\ UNCHANGED shadow
    \/ FindInReturn /\ UNCHANGED shadow

SpecInsert == InitInsert /\ [][NextInsert]_vars

(***************************************************************************)
(* C15: the historic-diagonal tolerance credits insertions.  With          *)
(* allowed_differences >= 1 and nomatch_multiplier = 0.0, a pattern of     *)
(* L >= 2 distinct tokens and a reference that is the pattern with one     *)
(* token that is no pattern token interposed between two consecutive       *)
(* pattern tokens, the score at the last reference position is > 0.0.      *)
(***************************************************************************)
\* the reference is the pattern with a non-pattern token put in after its
\* k-th token
InsertedAfter(k) ==
    /\ Len(reference) = Length + 1
    /\ ~IsPatternItem(reference[k + 1])
    /\ SubSeq(reference, 1, k) = SubSeq(args.items, 1, k)
    /\ SubSeq(reference, k + 2, Length + 1) = SubSeq(args.items, k + 1, Length)

OneItemInserted == \E k \in 1..(Length - 1) : InsertedAfter(k)

LastScorePositive ==
    pc = "scanning" /\ Len(results) = Len(reference) /\ Len(results) > 0
    /\ QLt(Zero, ScoreAt(Len(results) - 1))

C15_InsertionCredited ==
    (/\ pc \in {"scanning", "failed"}
     /\ args.allowed_differences >= 1
     /\ args.nomatch_multiplier = Zero
     /\ Length >= 2
     /\ DistinctItems
     /\ OneItemInserted) => LastScorePositive

\* C15 as amended: the inserted token is credited where every difference
\* the pattern can have is allowed.  With allowed_differences = L - 1 >= 1
\* and nomatch_multiplier = 0.0, a pattern of L >= 2 distinct tokens and a
\* reference that is the pattern with one token that is no pattern token
\* interposed between two consecutive pattern tokens, the score at the
\* last reference position is > 0.0.
C15_InsertionCreditedAtFullTolerance ==
    (/\ pc \in {"scanning", "failed"}
     /\ args.allowed_differences >= 1
     /\ args.allowed_differences = Length - 1
     /\ args.nomatch_multiplier = Zero
     /\ Length >= 2
     /\ DistinctItems
     /\ OneItemInserted) => LastScorePositive

\* the three-token pattern with two differences allowed, scanned with a
\* token put in after its first: the deepest historic diagonal alone
\* gives the last score, 1.0 / 3
C15_Witness ==
    /\ pc = "scanning"
    /\ args.allowed_differences = 2
    /\ args.nomatch_multiplier = Zero
    /\ Length = 3
    /\ InsertedAfter(1)
    /\ reference[2] = <<"x">>
    /\ tracker[1].tracker[4][1] = Zero
    /\ ScoreAt(3) = QDivInt(One, 3)

(***************************************************************************)
(* C16: in shiftand, the historic-diagonal transition of index j is made   *)
(* and or-ed into the score only when more than j + 1 states were recorded *)
(* before the call; it takes the state j + 2 steps back from the state the *)
(* call records, drops its j + 2 leading entries and pads j + 2 seeds of   *)
(* 1.0.  For j = 0 it does not contribute on the second call of a scan.    *)
(***************************************************************************)
\* the factor _and_tracker applies for an alignment value
AndFactor(value, nomatch_multiplier) ==
    IF value = Zero THEN nomatch_multiplier
    ELSE IF QLt(value, One) THEN value
    ELSE One

\* entry 0 of the transition from the state old: old without its j + 2
\* leading entries, padded with seeds, combined with the alignment
AltEntry0(old, j, alignment, nomatch_multiplier) ==
    QMul(IF j + 3 <= Len(old) THEN old[j + 3] ELSE One,
         AndFactor(alignment[Len(alignment)], nomatch_multiplier))

\* the historic-diagonal part of round j, read 'back' steps back from the
\* last state of history, which is the one the call recorded
DiagonalOr(history, alignment, nomatch_multiplier, j, back, score) ==
    IF Len(history) - 1 >= back
    THEN _or(score,
             AltEntry0(history[Len(history) - back], j, alignment, nomatch_multiplier),
             j)
    ELSE score

\* the score of the call from round j on, the diagonal of round j read
\* j + 1 + deeper steps back
RECURSIVE DiagonalLoop(_, _, _, _, _, _, _)
DiagonalLoop(history, alignment, allowed_differences, nomatch_multiplier,
             deeper, j, score) ==
    IF j >= allowed_differences THEN score
    ELSE DiagonalLoop(history, alignment, allowed_differences, nomatch_multiplier,
                      deeper, j + 1,
                      DiagonalOr(history, alignment, nomatch_multiplier, j,
                                 j + 1 + deeper,
                                 _or(score, history[Len(history)][j + 2], j)))

\* the last score of the scan is the score with the diagonals read
\* j + 1 + deeper steps back
LastScoreReads(deeper) ==
    pc = "scanning" /\ Len(reference) > 0 =>
        ScoreAt(Len(reference) - 1)
            = DiagonalLoop(tracker[1].tracker, AlignOf(Len(reference)),
                           args.allowed_differences, args.nomatch_multiplier,
                           deeper, 0, tracker[1].tracker[Len(reference)][1])

C16_DiagonalTwoBack == LastScoreReads(1)

\* C16 as amended: the historic-diagonal transition of index j is made and
\* or-ed into the score only when more than j states were recorded before
\* the call; it takes the state j + 1 steps back from the state the call
\* records (for j = 0 the state of the previous call), drops its j + 2
\* leading entries and pads j + 2 seeds of 1.0.  For j = 0 it contributes
\* from the second call of a scan on, and not on the first.
C16_DiagonalOneBack == LastScoreReads(0)

\* a second call whose score comes from the diagonal of j = 0 alone
C16_Witness ==
    /\ pc = "scanning" /\ Len(reference) = 2
    /\ args.allowed_differences = 1
    /\ Length = 3
    /\ tracker[1].tracker[2][1] = Zero
    /\ tracker[1].tracker[2][2] = Zero
    /\ tracker[1].tracker[1][3] = One
    /\ ScoreAt(1) = Half

(***************************************************************************)
(* C17: bounded look-back.  A tracker that keeps only its                  *)
(* allowed_differences + 2 most recent states returns on every shiftand    *)
(* the score of the tracker of find_in, which keeps its whole history, and *)
(* holds the same most recent states: shiftand reads no older state.       *)
(* The tracker of the short history is not a tracker of the code; it is    *)
(* computed here from the items find_in has read, beside the tracker of    *)
(* the code.                                                               *)
(***************************************************************************)
\* the last n elements of q, or q when it has fewer
LastOf(q, n) == SubSeq(q, IF Len(q) > n THEN Len(q) - n + 1 ELSE 1, Len(q))

\* the tracker T with only its allowed_differences + 2 most recent states
KeepRecent(T) == [T EXCEPT !.tracker = LastOf(@, T.allowed_differences + 2)]

\* shiftand on the tracker of the short history: the new state takes the
\* place of the oldest one when it is recorded, before the loop reads
RecentShiftand(T, locmap, newtracker) ==
    [T |-> KeepRecent([T EXCEPT !.tracker = Append(@, newtracker)]),
     score |-> ShiftandScore(KeepRecent([T EXCEPT !.tracker = Append(@, newtracker)]),
                             newtracker, locmap)]

\* the tracker of the short history after its shiftand returned r
RecentAdvanced(sh, r) == [T |-> r.T, scores |-> Append(sh.scores, r.score)]

\* the tracker of the short history after one more locmap
RecentLocated(sh, locmap) ==
    RecentAdvanced(sh, RecentShiftand(sh.T, locmap,
                           _and_tracker(sh.T, _shift_last_tracker(sh.T), locmap)))

\* the tracker of the short history, and the scores it returned, after the
\* first k items of the reference
RECURSIVE RecentAfter(_)
RecentAfter(k) ==
    IF k = 0
    THEN [T |-> [tracker[1] EXCEPT !.tracker = <<>>], scores |-> <<>>]
    ELSE RecentLocated(RecentAfter(k - 1),
                       get_locmap(matcher[1].vectors, reference[k]).val)

\* the tracker sh of the short history agrees with the tracker of find_in
RecentAgrees(sh) ==
    /\ Len(sh.scores) = Len(results)
    /\ \A k \in 1..Len(results) : sh.scores[k] = results[k][2]
    /\ Len(sh.T.tracker) <= args.allowed_differences + 2
    /\ sh.T.tracker = LastOf(tracker[1].tracker, args.allowed_differences + 2)

C17_BoundedLookBack ==
    pc \in {"scanning", "done"} => RecentAgrees(RecentAfter(Len(reference)))

\* a fourth call with one difference allowed: the short history has
\* dropped the first state, and the score of the call comes from the
\* historic diagonal
C17_Witness ==
    /\ pc = "scanning" /\ Len(reference) = 4
    /\ args.allowed_differences = 1
    /\ Len(tracker[1].tracker) = 4
    /\ Len(RecentAfter(4).T.tracker) = 3
    /\ tracker[1].tracker[1] # tracker[1].tracker[2]
    /\ tracker[1].tracker[4][1] = Zero
    /\ tracker[1].tracker[4][2] = Zero
    /\ QLt(Zero, ScoreAt(3))

(***************************************************************************)
(* Scans with the default configuration, on references that also hold a    *)
(* token with a pattern token inside it.                                   *)
(***************************************************************************)
ExactRefTokens == RefTokens \cup {<<"x", "a", "b">>}

InitExact ==
    /\ args \in [items : Patterns \ {<<>>},
                 allowed_differences : {0},
                 nomatch_multiplier : {Zero},
                 threshold : {One}]
    /\ pc = "new"
    /\ matcher = <<>>
    /\ tracker = <<>>
    /\ reference = <<>>
    /\ results = <<>>
    /\ returned = <<>>
    /\ error = ""
    /\ shadow = <<>>

NextExact ==
    \/ Construct /\ UNCHANGED shadow
    \/ FindInStart /\ UNCHANGED shadow
    \/ \E item \in ExactRefTokens : ScanStep(item) /\ UNCHANGED shadow
    \/ FindInReturn /\ UNCHANGED shadow

SpecExact == InitExact /\ [][NextExact]_vars

(***************************************************************************)
(* C18: exact-mode soundness.  With the default configuration find_in      *)
(* returns a result at position p only if the L reference tokens ending at *)
(* p are the pattern tokens, one by one, also for tokens of several        *)
(* characters: a reference token that only holds a pattern token inside it *)
(* gives no match.                                                         *)
(***************************************************************************)
C18_ExactSound ==
    pc = "done" /\ DefaultConfig =>
        \A k \in 1..Len(returned) : PrefixEndsAt(Length, returned[k][1])

(***************************************************************************)
(* C19: the recursion of the index ends after one level.  A nested matcher *)
(* is built only for a pattern token of more than one element, over the    *)
(* single elements of that token in their order, and the index of a nested *)
(* matcher holds no nested matcher; so the constructor returns, and        *)
(* get_locmap returns or raises for every token, and find_in with it.      *)
(* Stated of the matcher as the constructor returns it.                    *)
(***************************************************************************)
\* the entry e of an index is a leaf, or holds a matcher of depth one over
\* the elements of its key
DepthOne(e) ==
    e.mmq # <<>> =>
        /\ Len(e.key) > 1
        /\ e.mmq[1].items = [c \in 1..Len(e.key) |-> <<e.key[c]>>]
        /\ \A c \in 1..Len(e.key) : Len(e.mmq[1].items[c]) = 1
        /\ \A n \in 1..Len(e.mmq[1].vectors.vectors) :
               e.mmq[1].vectors.vectors[n].mmq = <<>>

C19_NestingDepthOne ==
    pc = "ready" =>
        /\ \A n \in 1..Len(matcher[1].vectors.vectors) :
               DepthOne(matcher[1].vectors.vectors[n])
        /\ \A token \in RefTokens :
               get_locmap(matcher[1].vectors, token).err \in {"", "ValueError"}

\* a matcher of a single and a compound token, built, whose index sends a
\* token that is no pattern token to the nested matcher and gets a score
C19_Witness ==
    /\ pc = "ready"
    /\ \E n \in 1..Len(matcher[1].vectors.vectors) :
           matcher[1].vectors.vectors[n].mmq = <<>>
    /\ \E n \in 1..Len(matcher[1].vectors.vectors) :
           /\ matcher[1].vectors.vectors[n].mmq # <<>>
           /\ Len(matcher[1].vectors.vectors[n].mmq[1].vectors.vectors) = 2
    /\ ~HasKey(matcher[1].vectors.vectors, <<"b">>)
    /\ get_locmap(matcher[1].vectors, <<"b">>).err = ""
    /\ \E n \in 1..Length : QLt(Zero, get_locmap(matcher[1].vectors, <<"b">>).val[n])

====
